---- MODULE Spec2Model ----
(***************************************************************************)
(* Model of cellprofiler/pipelineio.py: save_yaml writes a pipeline        *)
(* document (the dictionary handed to yaml.safe_dump), load_yaml reads one *)
(* (the dictionary yaml.safe_load returns) and materializes its modules.   *)
(* Dictionaries are functions from their keys, lists are sequences, an     *)
(* exception is a record naming the class that reaches the caller.         *)
(***************************************************************************)
EXTENDS Integers, Sequences, FiniteSets, TLC

VARIABLES modules, headless, disk, saved, call, result

vars == <<modules, headless, disk, saved, call, result>>

(* ------------------------------------------------------------------ *)
(* Bounds of the model                                                  *)
(* ------------------------------------------------------------------ *)
MaxModules == 2
MaxRecords == 2

(* ------------------------------------------------------------------ *)
(* Constants of pipelineio.py                                           *)
(* ------------------------------------------------------------------ *)
H_HEADER == "Header"
H_PIPELINE_VERSION == "PipelineVersion"
H_CP_VERSION == "CellProfilerVersion"
CURRENT_PIPELINE_VERSION == 5
H_MODULE_COUNT == "ModuleCount"
COOKIE_PREFIX == "CellProfiler Pipeline"
COOKIE_SUFFIX == "http://www.cellprofiler.org"
H_PIPELINE_DIMENSION == "Volumetric"
H_MODULE_LIST == "Module List"
M_PRIVATE_ATTRIBUTES == "Private Module Attributes"
M_SETTINGS == "Module Settings"
M_MODULE_NUMBER == "module_num"
M_SVN_VERSION == "svn_version"
M_VARIABLE_REVISION == "variable_revision_number"
M_SHOW_WINDOW == "show_window"
M_NOTES == "notes"
M_BATCH_STATE == "batch_state"
M_ENABLED == "enabled"
M_WANTS_PAUSE == "wants_pause"

\* cellprofiler.__version__, the version of the running program
cellprofiler_version == "3.0.0"

\* the tuple `attributes` of save_yaml
attributes ==
  {M_MODULE_NUMBER, M_SVN_VERSION, M_VARIABLE_REVISION, M_SHOW_WINDOW,
   M_NOTES, M_ENABLED, M_WANTS_PAUSE}

(* ------------------------------------------------------------------ *)
(* Scalars of the document and their conversions                        *)
(* ------------------------------------------------------------------ *)
\* decimal literals: str(n) writes one, int(s) reads one and raises
\* ValueError on any other text
Digits == <<"0", "1", "2", "3", "4", "5", "6", "7", "8", "9">>

str(n) == Digits[n + 1]

IsIntLiteral(s) == \E n \in 0..9 : Digits[n + 1] = s

int(s) == CHOOSE n \in 0..9 : Digits[n + 1] = s

\* distutils.version.StrictVersion(s): the version tuple of a well-formed
\* version string, ValueError on any other text
StrictVersionParses(s) == s \in {"2.4.6", "3.0.0", "3.1.4"}

StrictVersion(s) ==
  CASE s = "2.4.6" -> <<2, 4, 6>>
    [] s = "3.0.0" -> <<3, 0, 0>>
    [] s = "3.1.4" -> <<3, 1, 4>>

\* StrictVersion.__lt__: tuples compare lexicographically
VersionLess(a, b) ==
  \E i \in 1..3 : a[i] < b[i] /\ \A j \in 1..(i - 1) : a[j] = b[j]

(* ------------------------------------------------------------------ *)
(* Exceptions and log records                                           *)
(* ------------------------------------------------------------------ *)
\* type: the class that reaches the caller; origin: the class first raised;
\* detail: the key of a KeyError or the message; record: the position in the
\* module list of the record that raised (0: the document itself)
NoExc == [type |-> "", origin |-> "", detail |-> "", record |-> 0]

Raise(type, detail) ==
  [type |-> type, origin |-> type, detail |-> detail, record |-> 0]

LogEntry(kind, name, num) == [kind |-> kind, name |-> name, num |-> num]

(* ------------------------------------------------------------------ *)
(* save_yaml                                                            *)
(* ------------------------------------------------------------------ *)
\* {setting.text: setting.unicode_value}: a dictionary with one key
SettingDict(setting) == setting.text :> setting.unicode_value

\* module_info of one module (lines 77-86)
ModuleInfo(module) ==
  (M_SETTINGS :>
     [i \in 1..Len(module.settings) |-> SettingDict(module.settings[i])])
  @@ (M_PRIVATE_ATTRIBUTES :> [a \in attributes |-> module[a]])

\* {module.module_name: module_info} (line 92)
ModuleBlock(module) == module.module_name :> ModuleInfo(module)

\* the test of line 74: whether the loop skips the module
Skipped(module, has_filter, modules_to_save) ==
  has_filter /\ module.module_num \notin modules_to_save

RECURSIVE ModuleList(_, _, _)
\* the loop of lines 73-92
ModuleList(mods, has_filter, modules_to_save) ==
  IF mods = <<>> THEN <<>>
  ELSE IF Skipped(Head(mods), has_filter, modules_to_save)
       THEN ModuleList(Tail(mods), has_filter, modules_to_save)
       ELSE <<ModuleBlock(Head(mods))>>
            \o ModuleList(Tail(mods), has_filter, modules_to_save)

\* H_MODULE_COUNT of the header (line 64)
DeclaredCount(mods, has_filter, modules_to_save) == Len(mods)

\* pipeline_dict as save_yaml hands it to yaml.safe_dump (lines 58-92)
SavedDict(mods, has_filter, modules_to_save, volumetric) ==
  (COOKIE_PREFIX :> COOKIE_SUFFIX)
  @@ (H_HEADER :>
        ((H_CP_VERSION :> cellprofiler_version)
         @@ (H_PIPELINE_VERSION :> str(CURRENT_PIPELINE_VERSION))
         @@ (H_PIPELINE_DIMENSION :> volumetric)
         @@ (H_MODULE_COUNT :> DeclaredCount(mods, has_filter, modules_to_save))))
  @@ (H_MODULE_LIST :> ModuleList(mods, has_filter, modules_to_save))

(* ------------------------------------------------------------------ *)
(* The module registry and the module instances (cellprofiler.modules,  *)
(* cellprofiler.module): collaborators of load_yaml                     *)
(* ------------------------------------------------------------------ *)
\* what the collaborators do with one record of a load
ExtOutcomes == {"ok", "ResolutionError", "HydrationError", "HydrationKeyError"}

\* a new instance of the named module type, every field at its default
instantiate_module(module_name) ==
  [a \in attributes \cup {"module_name", M_BATCH_STATE, "setting_values"} |->
     CASE a = "module_name" -> module_name
       [] a = M_MODULE_NUMBER -> 0
       [] a = M_SVN_VERSION -> 0
       [] a = M_VARIABLE_REVISION -> 0
       [] a = M_SHOW_WINDOW -> TRUE
       [] a = M_NOTES -> ""
       [] a = M_ENABLED -> TRUE
       [] a = M_WANTS_PAUSE -> FALSE
       [] a = M_BATCH_STATE -> ""
       [] a = "setting_values" -> <<>>]

\* module.set_settings_from_values(values, revision, name), when it accepts
set_settings_from_values(module, setting_values, revision, module_name) ==
  [a \in DOMAIN module |->
     IF a = "setting_values" THEN setting_values ELSE module[a]]

(* ------------------------------------------------------------------ *)
(* load_yaml                                                            *)
(* ------------------------------------------------------------------ *)
\* the loop of lines 174-175: setattr(module, attr_name, attr_value)
SetAttrs(module, private_attrs) ==
  [a \in DOMAIN module \cup DOMAIN private_attrs |->
     IF a \in DOMAIN private_attrs THEN private_attrs[a] ELSE module[a]]

\* line 182: the values of the one-key dictionaries, in list order
FlattenSettings(module_settings) ==
  [i \in 1..Len(module_settings) |->
     module_settings[i][CHOOSE k \in DOMAIN module_settings[i] : TRUE]]

\* module_block.keys()[0] (line 160)
ModuleName(module_block) == CHOOSE k \in DOMAIN module_block : TRUE

\* the body of the inner try (lines 164-187) on one module block:
\* the exception it raises, the module it built, whether instantiate_module
\* returned an instance
TryModule(module_block, ext_i) ==
  LET module_name == ModuleName(module_block)
      module_info == module_block[module_name]
      fresh == instantiate_module(module_name)
      Failed(e, made) == [exc |-> e, module |-> fresh, instantiated |-> made]
  IN IF ext_i = "ResolutionError"
     THEN Failed(Raise("ResolutionError", module_name), FALSE)
     ELSE IF M_PRIVATE_ATTRIBUTES \notin DOMAIN module_info
     THEN Failed(Raise("KeyError", M_PRIVATE_ATTRIBUTES), TRUE)
     ELSE LET private_attrs == module_info[M_PRIVATE_ATTRIBUTES]
              module == SetAttrs(fresh, private_attrs)
          IN IF M_SETTINGS \notin DOMAIN module_info
             THEN Failed(Raise("KeyError", M_SETTINGS), TRUE)
             ELSE IF M_VARIABLE_REVISION \notin DOMAIN private_attrs
             THEN Failed(Raise("KeyError", M_VARIABLE_REVISION), TRUE)
             ELSE IF ext_i = "HydrationError"
             THEN Failed(Raise("HydrationError", module_name), TRUE)
             ELSE IF ext_i = "HydrationKeyError"
             THEN Failed(Raise("KeyError", module_name), TRUE)
             ELSE [exc |-> NoExc,
                   module |-> set_settings_from_values(
                                module,
                                FlattenSettings(module_info[M_SETTINGS]),
                                private_attrs[M_VARIABLE_REVISION],
                                module_name),
                   instantiated |-> TRUE]

\* a handler that re-raises in either mode
Reraise_always(raise_on_error) == TRUE

\* a handler that never re-raises
Reraise_never(raise_on_error) == FALSE

\* lines 195-196: whether the handler re-raises
Reraise(raise_on_error) == raise_on_error

\* the state of the loop of lines 150-198
LoopStart(log) ==
  [exc |-> NoExc, new_modules |-> <<>>, module_number |-> 1, log |-> log,
   instantiated |-> <<>>, processed |-> <<>>, sources |-> <<>>]

RECURSIVE LoadModules(_, _, _, _, _)
\* the loop of lines 158-198 from record i on
LoadModules(module_list, i, st, raise_on_error, ext) ==
  IF i > Len(module_list) THEN st
  ELSE
    LET r == TryModule(module_list[i], ext[i])
        seen == [st EXCEPT !.processed = Append(@, i),
                           !.instantiated =
                             IF r.instantiated THEN Append(@, i) ELSE @]
    IN IF r.exc.type = ""
       THEN LoadModules(module_list, i + 1,
              [seen EXCEPT !.new_modules = Append(@, r.module),
                           !.sources = Append(@, i),
                           !.module_number = @ + 1],
              raise_on_error, ext)
       ELSE
         LET warned ==
               [seen EXCEPT !.log =
                  Append(@, LogEntry("module_failed",
                                     ModuleName(module_list[i]),
                                     st.module_number))]
         IN IF Reraise(raise_on_error)
            THEN [warned EXCEPT !.exc = [r.exc EXCEPT !.record = i]]
            ELSE LoadModules(module_list, i + 1,
                   [warned EXCEPT !.log =
                      @ \o <<LogEntry("exception", r.exc.type, i),
                             LogEntry("continuing", "", 0)>>],
                   raise_on_error, ext)

\* a gate that lets the version after the current one through
VersionTooNew_lax(pipeline_version) ==
  pipeline_version > CURRENT_PIPELINE_VERSION + 1

\* line 122: the format version the reader refuses
VersionTooNew(pipeline_version) == pipeline_version > CURRENT_PIPELINE_VERSION

\* line 133: whether the older-producer warning is logged
OlderProducer(cp_version, is_headless) ==
  VersionLess(cp_version, StrictVersion(cellprofiler_version)) /\ ~is_headless

\* a comparison that also warns when every declared module was loaded
CountMismatch_inclusive(module_count, new_modules) ==
  module_count >= Len(new_modules)

\* line 200: whether the summary warning is logged
CountMismatch(module_count, new_modules) == module_count > Len(new_modules)

\* what load_yaml hands back: status "ok" with the tuple of line 203, or
\* status "raised" with the exception that reaches the caller
Returned(st, volumetric) ==
  [status |-> "ok", exc |-> NoExc, modules |-> st.new_modules,
   volumetric |-> volumetric, log |-> st.log,
   instantiated |-> st.instantiated, processed |-> st.processed,
   sources |-> st.sources]

Raised(e, st) ==
  [status |-> "raised", exc |-> e, modules |-> <<>>, volumetric |-> FALSE,
   log |-> st.log, instantiated |-> st.instantiated,
   processed |-> st.processed, sources |-> <<>>]

\* the body of the outer try (lines 116-203)
TryBody(pipeline_dict, raise_on_error, is_headless, ext, log0) ==
  LET st0 == LoopStart(log0)
  IN IF H_HEADER \notin DOMAIN pipeline_dict
     THEN Raised(Raise("KeyError", H_HEADER), st0)
     ELSE
     LET header == pipeline_dict[H_HEADER]
     IN IF H_PIPELINE_VERSION \notin DOMAIN header
        THEN Raised(Raise("KeyError", H_PIPELINE_VERSION), st0)
        ELSE IF ~IsIntLiteral(header[H_PIPELINE_VERSION])
        THEN Raised(Raise("ValueError", H_PIPELINE_VERSION), st0)
        ELSE IF VersionTooNew(int(header[H_PIPELINE_VERSION]))
        THEN Raised(Raise("PipelineLoadException", "version too new"), st0)
        ELSE IF H_CP_VERSION \notin DOMAIN header
        THEN Raised(Raise("KeyError", H_CP_VERSION), st0)
        ELSE IF ~StrictVersionParses(header[H_CP_VERSION])
        THEN Raised(Raise("ValueError", H_CP_VERSION), st0)
        ELSE
        LET log1 ==
              IF OlderProducer(StrictVersion(header[H_CP_VERSION]), is_headless)
              THEN Append(log0, LogEntry("old_version", header[H_CP_VERSION], 0))
              ELSE log0
            st1 == LoopStart(log1)
        IN IF H_PIPELINE_DIMENSION \notin DOMAIN header
           THEN Raised(Raise("KeyError", H_PIPELINE_DIMENSION), st1)
           ELSE IF H_MODULE_COUNT \notin DOMAIN header
           THEN Raised(Raise("KeyError", H_MODULE_COUNT), st1)
           ELSE IF H_MODULE_LIST \notin DOMAIN pipeline_dict
           THEN Raised(Raise("KeyError", H_MODULE_LIST), st1)
           ELSE
           LET st2 == LoadModules(pipeline_dict[H_MODULE_LIST], 1, st1,
                                  raise_on_error, ext)
               module_count == header[H_MODULE_COUNT]
           IN IF st2.exc.type # ""
              THEN Raised(st2.exc, st2)
              ELSE Returned(
                     IF CountMismatch(module_count, st2.new_modules)
                     THEN [st2 EXCEPT !.log =
                             Append(@, LogEntry("count_mismatch", "",
                                      module_count - Len(st2.new_modules)))]
                     ELSE st2,
                     header[H_PIPELINE_DIMENSION])

\* a handler that lets the KeyError through as it is
HandleKeyError_passes(r) == r

\* lines 205-208: a KeyError that leaves the try is logged and replaced by
\* PipelineLoadException(err); any other exception passes through
HandleKeyError(r) ==
  IF r.status = "raised" /\ r.exc.type = "KeyError"
  THEN [r EXCEPT !.exc.type = "PipelineLoadException",
                 !.log = @ \o <<LogEntry("unable_to_load", r.exc.detail, 0),
                                LogEntry("exception", "KeyError", r.exc.record)>>]
  ELSE r

\* lines 108-110: the warning for a document without the cookie
CookieWarning(pipeline_dict) ==
  IF COOKIE_PREFIX \notin DOMAIN pipeline_dict
  THEN <<LogEntry("cookie_missing", "", 0)>>
  ELSE <<>>

\* load_yaml on the dictionary yaml.safe_load returned (lines 108-208)
load_yaml(pipeline_dict, raise_on_error, is_headless, ext) ==
  HandleKeyError(
    TryBody(pipeline_dict, raise_on_error, is_headless, ext,
            CookieWarning(pipeline_dict)))

(* ------------------------------------------------------------------ *)
(* The pipelines in memory and the documents on disk                    *)
(* ------------------------------------------------------------------ *)
Setting(text, unicode_value) == [text |-> text, unicode_value |-> unicode_value]

\* a module of the running program: its name, its private attributes, its
\* batch state and its settings
Module(name, num, svn, revision, show, notes, enabled, pause, batch, settings) ==
  [a \in attributes \cup {"module_name", M_BATCH_STATE, "settings"} |->
     CASE a = "module_name" -> name
       [] a = M_MODULE_NUMBER -> num
       [] a = M_SVN_VERSION -> svn
       [] a = M_VARIABLE_REVISION -> revision
       [] a = M_SHOW_WINDOW -> show
       [] a = M_NOTES -> notes
       [] a = M_ENABLED -> enabled
       [] a = M_WANTS_PAUSE -> pause
       [] a = M_BATCH_STATE -> batch
       [] a = "settings" -> settings]

\* the modules a pipeline is built from, to be placed at position num
ModulePool(num) ==
  { Module("Crop", num, 1, 2, TRUE, "first", TRUE, FALSE, "",
           <<Setting("X", "1"), Setting("X", "2")>>),
    Module("Crop", num, 2, 3, FALSE, "", FALSE, TRUE, "blob",
           <<Setting("X", "2"), Setting("X", "1")>>),
    Module("Resize", num, 1, 1, TRUE, "", TRUE, FALSE, "",
           <<Setting("Y", "1")>>) }

\* pipeline.modules(): module i carries module_num i
Pipelines ==
  UNION { { p \in [1..n -> UNION { ModulePool(i) : i \in 1..n }] :
              \A i \in 1..n : p[i][M_MODULE_NUMBER] = i } : n \in 0..MaxModules }

FixedPipeline ==
  <<Module("Crop", 1, 1, 2, TRUE, "first", TRUE, FALSE, "",
           <<Setting("X", "1"), Setting("X", "2")>>),
    Module("Resize", 2, 1, 1, TRUE, "", TRUE, FALSE, "",
           <<Setting("Y", "1")>>)>>

\* module blocks found in documents on disk: two whole ones (the second
\* numbered 3 in its private attributes), one without private attributes,
\* one without settings, one without a revision number
DiskBlocks ==
  { ModuleBlock(Module("Crop", 1, 1, 2, TRUE, "first", TRUE, FALSE, "",
                       <<Setting("X", "1"), Setting("X", "2")>>)),
    ModuleBlock(Module("Resize", 3, 1, 1, FALSE, "", TRUE, FALSE, "",
                       <<Setting("Y", "1")>>)),
    "Crop" :> (M_SETTINGS :> <<("X" :> "1")>>),
    "Resize" :> (M_PRIVATE_ATTRIBUTES :>
                   [a \in attributes |->
                      IF a \in {M_NOTES} THEN "" ELSE
                      IF a \in {M_SHOW_WINDOW, M_ENABLED, M_WANTS_PAUSE}
                      THEN TRUE ELSE 1]),
    "Crop" :> ((M_SETTINGS :> <<("X" :> "1")>>)
               @@ (M_PRIVATE_ATTRIBUTES :> (M_MODULE_NUMBER :> 2))) }

DiskLists(n) == UNION { [1..k -> DiskBlocks] : k \in 0..n }

HeaderKeys ==
  {H_PIPELINE_VERSION, H_CP_VERSION, H_PIPELINE_DIMENSION, H_MODULE_COUNT}

\* a header holding the keys K
Header(K, pv, cpv, vol, mc) ==
  [k \in K |->
     CASE k = H_PIPELINE_VERSION -> pv
       [] k = H_CP_VERSION -> cpv
       [] k = H_PIPELINE_DIMENSION -> vol
       [] k = H_MODULE_COUNT -> mc]

Headers(PVs, CPVs, Vols, MCs) ==
  { Header(K, pv, cpv, vol, mc) :
      K \in SUBSET HeaderKeys, pv \in PVs, cpv \in CPVs, vol \in Vols, mc \in MCs }

\* a document: hdr and lst hold the header and the module list when present
Document(cookie, hdr, lst) ==
  [k \in (IF cookie THEN {COOKIE_PREFIX} ELSE {})
         \cup (IF hdr # <<>> THEN {H_HEADER} ELSE {})
         \cup (IF lst # <<>> THEN {H_MODULE_LIST} ELSE {}) |->
     CASE k = COOKIE_PREFIX -> COOKIE_SUFFIX
       [] k = H_HEADER -> hdr[1]
       [] k = H_MODULE_LIST -> lst[1]]

PipelineVersions == {"4", "5", "6", "five"}
ProducerVersions == {"2.4.6", "3.0.0", "3.1.4", "unknown"}

\* documents with any header and at most one module block
HeaderDocuments ==
  { Document(cookie, hdr, lst) :
      cookie \in BOOLEAN,
      hdr \in {<<>>} \cup
              { <<h>> : h \in Headers(PipelineVersions, ProducerVersions,
                                      BOOLEAN, 0..2) },
      lst \in {<<>>} \cup { <<l>> : l \in DiskLists(1) } }

\* documents with a whole header and up to MaxRecords module blocks
RecordDocuments ==
  { Document(TRUE,
             <<Header(HeaderKeys, str(CURRENT_PIPELINE_VERSION),
                      cellprofiler_version, FALSE, mc)>>,
             <<l>>) :
      mc \in 0..(MaxRecords + 1), l \in DiskLists(MaxRecords) }

(* ------------------------------------------------------------------ *)
(* The state machine                                                    *)
(* ------------------------------------------------------------------ *)
NotSaved ==
  [done |-> FALSE, has_filter |-> FALSE, modules_to_save |-> {},
   volumetric |-> FALSE]

NoCall == [op |-> "", raise_on_error |-> FALSE, ext |-> <<>>]

NoResult ==
  [status |-> "", exc |-> NoExc, modules |-> <<>>, volumetric |-> FALSE,
   log |-> <<>>, instantiated |-> <<>>, processed |-> <<>>, sources |-> <<>>]

Init ==
  /\ headless \in BOOLEAN
  /\ \/ modules = FixedPipeline /\ disk \in { <<d>> : d \in HeaderDocuments }
     \/ modules = FixedPipeline /\ disk \in { <<d>> : d \in RecordDocuments }
     \/ modules \in Pipelines /\ disk = <<>>
  /\ saved = NotSaved
  /\ call = NoCall
  /\ result = NoResult

\* save_yaml(modules, filename, modules_to_save, volumetric): the file holds
\* the dumped dictionary
Save(has_filter, modules_to_save, volumetric) ==
  /\ disk' = <<SavedDict(modules, has_filter, modules_to_save, volumetric)>>
  /\ saved' = [done |-> TRUE, has_filter |-> has_filter,
               modules_to_save |-> modules_to_save, volumetric |-> volumetric]
  /\ call' = [NoCall EXCEPT !.op = "save_yaml"]
  /\ result' = NoResult
  /\ UNCHANGED <<modules, headless>>

\* the records of the module list of a document
Records(pipeline_dict) ==
  IF H_MODULE_LIST \in DOMAIN pipeline_dict
  THEN pipeline_dict[H_MODULE_LIST] ELSE <<>>

\* load_yaml(filename, raise_on_error) on the file on disk; ext is what the
\* registry and the module instances do with each record
Load(raise_on_error, ext) ==
  /\ result' = load_yaml(disk[1], raise_on_error, headless, ext)
  /\ call' = [op |-> "load_yaml", raise_on_error |-> raise_on_error, ext |-> ext]
  /\ UNCHANGED <<modules, headless, disk, saved>>

\* Neither function keeps state between calls: modules and headless never
\* change, a save overwrites the file whatever it held and a load leaves the
\* file as it found it. A second save, or any call after a load, reaches only
\* states reached without it, so a behaviour is at most one save followed by
\* at most one load.
Next ==
  \/ /\ call.op = ""
     /\ \E volumetric \in BOOLEAN :
          \/ Save(FALSE, {}, volumetric)
          \/ \E modules_to_save \in SUBSET (1..MaxModules) :
               Save(TRUE, modules_to_save, volumetric)
  \/ /\ call.op # "load_yaml"
     /\ disk # <<>>
     /\ \E raise_on_error \in BOOLEAN :
          \E ext \in [1..Len(Records(disk[1])) -> ExtOutcomes] :
            Load(raise_on_error, ext)

Spec == Init /\ [][Next]_vars

(* ------------------------------------------------------------------ *)
(* Vocabulary of the properties                                         *)
(* ------------------------------------------------------------------ *)
\* the last call was a load of the file now on disk
Loaded == call.op = "load_yaml"

Doc == disk[1]

HasHeader(d) == H_HEADER \in DOMAIN d

HeaderHas(d, k) == HasHeader(d) /\ k \in DOMAIN d[H_HEADER]

\* the header declares a format version above the reader's maximum
DeclaresNewerVersion(d) ==
  /\ HeaderHas(d, H_PIPELINE_VERSION)
  /\ IsIntLiteral(d[H_HEADER][H_PIPELINE_VERSION])
  /\ int(d[H_HEADER][H_PIPELINE_VERSION]) >= CURRENT_PIPELINE_VERSION + 1

\* the document passes every check made on the header
HeaderAccepted(d) ==
  /\ \A k \in HeaderKeys : HeaderHas(d, k)
  /\ IsIntLiteral(d[H_HEADER][H_PIPELINE_VERSION])
  /\ int(d[H_HEADER][H_PIPELINE_VERSION]) <= CURRENT_PIPELINE_VERSION
  /\ StrictVersionParses(d[H_HEADER][H_CP_VERSION])

\* the record resolves and hydrates: the collaborators accept it and it
\* holds what the loader looks up
Good(module_block, e) ==
  LET info == module_block[ModuleName(module_block)]
  IN /\ e = "ok"
     /\ M_PRIVATE_ATTRIBUTES \in DOMAIN info
     /\ M_SETTINGS \in DOMAIN info
     /\ M_VARIABLE_REVISION \in DOMAIN info[M_PRIVATE_ATTRIBUTES]

GoodIndices ==
  { i \in 1..Len(Records(Doc)) : Good(Records(Doc)[i], call.ext[i]) }

\* the class of the failure of a record that is not Good
FailureOf(module_block, e) ==
  LET info == module_block[ModuleName(module_block)]
  IN IF e = "ResolutionError" THEN "ResolutionError"
     ELSE IF ~Good(module_block, "ok") THEN "KeyError"
     ELSE IF e = "HydrationKeyError" THEN "KeyError"
     ELSE "HydrationError"

\* seq lists the members of S in increasing order
ListsInOrder(seq, S) ==
  /\ Len(seq) = Cardinality(S)
  /\ \A i \in 1..Len(seq) : seq[i] \in S
  /\ \A i, j \in 1..Len(seq) : i < j => seq[i] < seq[j]

\* the load returned, and returned exactly the Good records in file order
ReturnsGoodRecords ==
  /\ result.status = "ok"
  /\ ListsInOrder(result.sources, GoodIndices)
  /\ Len(result.modules) = Len(result.sources)
  /\ \A j \in 1..Len(result.modules) :
       LET b == Records(Doc)[result.sources[j]]
       IN /\ result.modules[j]["module_name"] = ModuleName(b)
          /\ result.modules[j]["setting_values"] =
               FlattenSettings(b[ModuleName(b)][M_SETTINGS])

(* ------------------------------------------------------------------ *)
(* C1                                                                   *)
(* ------------------------------------------------------------------ *)
\* C1: a load of a document whose header declares a format version above
\* CURRENT_PIPELINE_VERSION raises the version-too-new PipelineLoadException,
\* whatever else the document holds and whatever the mode, and no module
\* record has been touched or instantiated.
C1_VersionGate ==
  (Loaded /\ DeclaresNewerVersion(Doc)) =>
    /\ result.status = "raised"
    /\ result.exc.type = "PipelineLoadException"
    /\ result.exc.detail = "version too new"
    /\ result.processed = <<>>
    /\ result.instantiated = <<>>
    /\ result.modules = <<>>

\* a strict load of a too-new document with no module count, an unparsable
\* producer version and an unresolvable module
C1_Witness ==
  /\ Loaded /\ DeclaresNewerVersion(Doc)
  /\ ~HeaderHas(Doc, H_MODULE_COUNT)
  /\ HeaderHas(Doc, H_CP_VERSION)
  /\ ~StrictVersionParses(Doc[H_HEADER][H_CP_VERSION])
  /\ Len(Records(Doc)) = 1
  /\ call.ext[1] = "ResolutionError"
  /\ call.raise_on_error
  /\ result.exc.detail = "version too new"

(* ------------------------------------------------------------------ *)
(* C2                                                                   *)
(* ------------------------------------------------------------------ *)
\* C2 as stated: a non-strict load of any document that passes the header
\* checks returns, and returns exactly the records that resolve and hydrate,
\* in file order.
C2_AsStated ==
  (Loaded /\ ~call.raise_on_error /\ HeaderAccepted(Doc)) => ReturnsGoodRecords

\* C2 amended: a non-strict load of a document that passes the header checks
\* and holds a module list returns, and returns exactly the records that
\* resolve and hydrate, in file order; failing records are skipped and no
\* record after a failing one is lost.
C2_SkipAndContinue ==
  (/\ Loaded /\ ~call.raise_on_error /\ HeaderAccepted(Doc)
   /\ H_MODULE_LIST \in DOMAIN Doc) => ReturnsGoodRecords

\* a non-strict load whose first record fails and whose second is returned
C2_Witness ==
  /\ Loaded /\ ~call.raise_on_error /\ HeaderAccepted(Doc)
  /\ Len(Records(Doc)) = 2
  /\ GoodIndices = {2}
  /\ result.status = "ok"
  /\ result.sources = <<2>>

(* ------------------------------------------------------------------ *)
(* C3                                                                   *)
(* ------------------------------------------------------------------ *)
\* C3: a strict load stops at the first record that fails to resolve or
\* hydrate: load_yaml raises, hands back no module, has processed no later
\* record, and the exception is that record's own failure (a KeyError inside
\* PipelineLoadException, any other class as raised).
C3_StrictAborts ==
  (/\ Loaded /\ call.raise_on_error /\ HeaderAccepted(Doc)
   /\ H_MODULE_LIST \in DOMAIN Doc
   /\ GoodIndices # 1..Len(Records(Doc))) =>
    LET f == CHOOSE i \in 1..Len(Records(Doc)) :
               /\ i \notin GoodIndices
               /\ \A j \in 1..(i - 1) : j \in GoodIndices
        origin == FailureOf(Records(Doc)[f], call.ext[f])
    IN /\ result.status = "raised"
       /\ result.modules = <<>>
       /\ result.processed = [i \in 1..f |-> i]
       /\ result.exc.record = f
       /\ result.exc.origin = origin
       /\ result.exc.type =
            IF origin = "KeyError" THEN "PipelineLoadException" ELSE origin

\* a strict load whose first record was materialized and whose second fails
C3_Witness ==
  /\ Loaded /\ call.raise_on_error /\ HeaderAccepted(Doc)
  /\ Len(Records(Doc)) = 2
  /\ GoodIndices = {1}
  /\ result.status = "raised"
  /\ result.instantiated # <<>>
  /\ result.exc.record = 2

(* ------------------------------------------------------------------ *)
(* C4                                                                   *)
(* ------------------------------------------------------------------ *)
\* C4: after a load that returns, the i-th returned module carries position
\* number i.
C4_ContiguousPositions ==
  (Loaded /\ result.status = "ok") =>
    \A i \in 1..Len(result.modules) : result.modules[i][M_MODULE_NUMBER] = i

(* ------------------------------------------------------------------ *)
(* C5                                                                   *)
(* ------------------------------------------------------------------ *)
\* the summary advisories of the load
Advisories ==
  LET IsSummary(e) == e.kind = "count_mismatch"
  IN SelectSeq(result.log, IsSummary)

\* the records the load went through without returning a module for them
Skipped_records == Len(result.processed) - Len(result.modules)

\* C5 as stated: a non-strict load that returns logs exactly one summary
\* advisory if and only if it materialized fewer modules than the header
\* declares, and the advisory states the number of records the load skipped.
C5_AsStated ==
  (Loaded /\ ~call.raise_on_error /\ result.status = "ok") =>
    /\ Len(Advisories) <= 1
    /\ Len(Advisories) = 1
         <=> Len(result.modules) < Doc[H_HEADER][H_MODULE_COUNT]
    /\ Len(Advisories) = 1 => Advisories[1].num = Skipped_records

\* C5 amended: a non-strict load that returns logs exactly one summary
\* advisory if and only if it materialized fewer modules than the header
\* declares, and the advisory states the declared count less the number
\* materialized: the number of records skipped when the header declares as
\* many modules as the list holds.
C5_SummaryAdvisory ==
  (Loaded /\ ~call.raise_on_error /\ result.status = "ok") =>
    LET declared == Doc[H_HEADER][H_MODULE_COUNT]
    IN /\ Len(Advisories) <= 1
       /\ Len(Advisories) = 1 <=> Len(result.modules) < declared
       /\ Len(Advisories) = 1 =>
            /\ Advisories[1].num = declared - Len(result.modules)
            /\ declared = Len(Records(Doc)) =>
                 Advisories[1].num = Skipped_records

\* a non-strict load of two declared records, one of them skipped
C5_Witness ==
  /\ Loaded /\ ~call.raise_on_error /\ result.status = "ok"
  /\ Doc[H_HEADER][H_MODULE_COUNT] = 2
  /\ Len(Records(Doc)) = 2
  /\ Len(result.modules) = 1
  /\ Len(Advisories) = 1
  /\ Advisories[1].num = 1

(* ------------------------------------------------------------------ *)
(* C6                                                                   *)
(* ------------------------------------------------------------------ *)
\* the header block, or one of the keys the claim calls required, is missing
MissingRequired(d) ==
  \/ ~HasHeader(d)
  \/ \E k \in {H_PIPELINE_VERSION, H_CP_VERSION, H_MODULE_COUNT} :
       k \notin DOMAIN d[H_HEADER]

\* the order in which load_yaml looks the header keys up
ReadOrder ==
  <<H_PIPELINE_VERSION, H_CP_VERSION, H_PIPELINE_DIMENSION, H_MODULE_COUNT>>

FirstMissing(d) ==
  CHOOSE i \in 1..Len(ReadOrder) :
    /\ ReadOrder[i] \notin DOMAIN d[H_HEADER]
    /\ \A j \in 1..(i - 1) : ReadOrder[j] \in DOMAIN d[H_HEADER]

FirstMissingKey(d) ==
  IF ~HasHeader(d) THEN H_HEADER ELSE ReadOrder[FirstMissing(d)]

\* every key read before the first missing one holds a value the reader takes
EarlierAccepted(d) ==
  \/ ~HasHeader(d)
  \/ /\ FirstMissing(d) > 1 =>
          /\ IsIntLiteral(d[H_HEADER][H_PIPELINE_VERSION])
          /\ int(d[H_HEADER][H_PIPELINE_VERSION]) <= CURRENT_PIPELINE_VERSION
     /\ FirstMissing(d) > 2 => StrictVersionParses(d[H_HEADER][H_CP_VERSION])

\* C6 as stated: when the header block or a required header key is missing,
\* load_yaml raises PipelineLoadException naming a missing key, returns
\* nothing and instantiates no module.
C6_AsStated ==
  (Loaded /\ MissingRequired(Doc)) =>
    /\ result.status = "raised"
    /\ result.exc.type = "PipelineLoadException"
    /\ result.exc.origin = "KeyError"
    /\ IF HasHeader(Doc)
       THEN result.exc.detail \in HeaderKeys \ DOMAIN Doc[H_HEADER]
       ELSE result.exc.detail = H_HEADER
    /\ result.modules = <<>>
    /\ result.instantiated = <<>>

\* C6 amended: when the header block or a required header key is missing,
\* load_yaml raises, returns nothing and instantiates no module; the exception
\* is PipelineLoadException naming the first missing key in reading order
\* whenever every key read before it holds an accepted value.
C6_MissingKey ==
  (Loaded /\ MissingRequired(Doc)) =>
    /\ result.status = "raised"
    /\ result.modules = <<>>
    /\ result.processed = <<>>
    /\ result.instantiated = <<>>
    /\ EarlierAccepted(Doc) =>
         /\ result.exc.type = "PipelineLoadException"
         /\ result.exc.origin = "KeyError"
         /\ result.exc.detail = FirstMissingKey(Doc)

\* a load of a document that lacks only the module count and lists a module
\* that would resolve
C6_Witness ==
  /\ Loaded
  /\ HasHeader(Doc)
  /\ DOMAIN Doc[H_HEADER] = HeaderKeys \ {H_MODULE_COUNT}
  /\ EarlierAccepted(Doc)
  /\ Len(Records(Doc)) = 1
  /\ GoodIndices = {1}
  /\ result.exc.type = "PipelineLoadException"
  /\ result.exc.detail = H_MODULE_COUNT

(* ------------------------------------------------------------------ *)
(* C7                                                                   *)
(* ------------------------------------------------------------------ *)
\* C7: a load of a document that lacks only the Volumetric key of the header
\* and is valid otherwise returns, with the dimensionality flag false.
C7_DefaultDimensionality ==
  (/\ Loaded
   /\ HasHeader(Doc)
   /\ DOMAIN Doc[H_HEADER] = HeaderKeys \ {H_PIPELINE_DIMENSION}
   /\ IsIntLiteral(Doc[H_HEADER][H_PIPELINE_VERSION])
   /\ int(Doc[H_HEADER][H_PIPELINE_VERSION]) <= CURRENT_PIPELINE_VERSION
   /\ StrictVersionParses(Doc[H_HEADER][H_CP_VERSION])
   /\ H_MODULE_LIST \in DOMAIN Doc
   /\ GoodIndices = 1..Len(Records(Doc))) =>
    /\ result.status = "ok"
    /\ result.volumetric = FALSE

(* ------------------------------------------------------------------ *)
(* C8                                                                   *)
(* ------------------------------------------------------------------ *)
\* C8: loading what save_yaml wrote without a subset filter, every module
\* resolving and hydrating, returns as many modules in the same order, with
\* the same type names, the same setting values in order (one per written
\* entry) and the same private attributes, the batch state among them.
C8_RoundTrip ==
  (/\ Loaded /\ saved.done /\ ~saved.has_filter
   /\ \A i \in 1..Len(call.ext) : call.ext[i] = "ok") =>
    /\ result.status = "ok"
    /\ Len(result.modules) = Len(modules)
    /\ \A i \in 1..Len(modules) :
         /\ result.modules[i]["module_name"] = modules[i]["module_name"]
         /\ result.modules[i]["setting_values"] =
              [j \in 1..Len(modules[i]["settings"]) |->
                 modules[i]["settings"][j].unicode_value]
         /\ \A a \in attributes \cup {M_BATCH_STATE} :
              result.modules[i][a] = modules[i][a]

(* ------------------------------------------------------------------ *)
(* C9                                                                   *)
(* ------------------------------------------------------------------ *)
\* C9: the module count save_yaml writes in the header is the number of
\* records it writes, and the records written are the modules whose position
\* number is in the subset (all of them without a subset), in order.
C9_DeclaredCount ==
  saved.done =>
    LET Kept(m) ==
          ~saved.has_filter \/ m[M_MODULE_NUMBER] \in saved.modules_to_save
        kept == SelectSeq(modules, Kept)
    IN /\ Doc[H_MODULE_LIST] = [i \in 1..Len(kept) |-> ModuleBlock(kept[i])]
       /\ Doc[H_HEADER][H_MODULE_COUNT] = Len(Doc[H_MODULE_LIST])

(* ------------------------------------------------------------------ *)
(* C10                                                                  *)
(* ------------------------------------------------------------------ *)
\* the document d with the cookie present or not and, when the header holds
\* a producer version, that version replaced by cpv
Variant(d, cookie, cpv) ==
  [k \in (DOMAIN d \ {COOKIE_PREFIX})
         \cup (IF cookie THEN {COOKIE_PREFIX} ELSE {}) |->
     CASE k = COOKIE_PREFIX -> COOKIE_SUFFIX
       [] k = H_HEADER ->
            [h \in DOMAIN d[H_HEADER] |->
               IF h = H_CP_VERSION THEN cpv ELSE d[H_HEADER][h]]
       [] k = H_MODULE_LIST -> d[H_MODULE_LIST]]

\* what the caller gets: success or failure and, on success, the tuple
Outcome(r) ==
  [status |-> r.status, modules |-> r.modules, volumetric |-> r.volumetric]

\* C10: a load that differs from the one made only in the presence of the
\* cookie, in the value of the producer version string or in headless mode
\* ends with the same success or failure and, on success, the same modules
\* and dimensionality.
C10_AdvisoriesNeutral ==
  Loaded =>
    \A cookie \in BOOLEAN, cpv \in ProducerVersions, is_headless \in BOOLEAN :
      Outcome(load_yaml(Variant(Doc, cookie, cpv), call.raise_on_error,
                        is_headless, call.ext))
        = Outcome(result)

====
